---- MODULE Spec2Model ----
(***************************************************************************)
(* A model of faust2sc.py: the pipeline that converts a Faust .dsp file    *)
(* into a SuperCollider class file, help file and plugin objects.          *)
(*                                                                         *)
(* Strings that the program inspects character by character (the DSP name *)
(* and the class name) are sequences of one-character strings.  Strings    *)
(* the program only concatenates or compares are TLA+ strings.             *)
(***************************************************************************)
EXTENDS Integers, Sequences, FiniteSets, TLC

\* Python's None is the empty tuple and a present value v is <<v>>
None == <<>>

Some(v) == <<v>>

Val(o) == o[1]

(***************************************************************************)
(* Bounds of the model                                                     *)
(***************************************************************************)
\* longest freely chosen beginning of a DSP name
MaxHead == 3
\* longest run of the filler letter between beginning and ending
MaxFill == 31
\* most header directories that hold at least one subfolder
MaxPopulated == 2
\* most UI controls in the metadata
MaxControls == 2

(***************************************************************************)
(* Python helpers                                                          *)
(***************************************************************************)
Min(a, b) == IF a < b THEN a ELSE b

\* s[a:b] for 0 <= a <= b
Slice(s, a, b) == SubSeq(s, a + 1, Min(b, Len(s)))

Lowers == <<"a","b","c","d","e","f","g","h","i","j","k","l","m",
            "n","o","p","q","r","s","t","u","v","w","x","y","z">>

Uppers == <<"A","B","C","D","E","F","G","H","I","J","K","L","M",
            "N","O","P","Q","R","S","T","U","V","W","X","Y","Z">>

\* str.upper() of one ASCII character
upper(c) ==
    IF \E i \in 1..26 : Lowers[i] = c
    THEN Uppers[CHOOSE i \in 1..26 : Lowers[i] = c]
    ELSE c

\* str.lower() of one ASCII character
lower(c) ==
    IF \E i \in 1..26 : Uppers[i] = c
    THEN Lowers[CHOOSE i \in 1..26 : Uppers[i] = c]
    ELSE c

IsUpperLetter(c) == \E i \in 1..26 : Uppers[i] = c

IsLetter(c) == \E i \in 1..26 : Uppers[i] = c \/ Lowers[i] = c

(***************************************************************************)
(* Class names                                                             *)
(***************************************************************************)
Separators == {"_", "-", " "}

maxlen == 31

FaustPrefix == <<"F","a","u","s","t">>

\* the loop of normalizeClassName, from character i on
RECURSIVE NormLoop(_, _, _, _)
NormLoop(meta_name, i, upnext, normalized) ==
    IF i > Len(meta_name) THEN normalized
    ELSE IF upnext
         THEN NormLoop(meta_name, i + 1, FALSE, Append(normalized, upper(meta_name[i])))
         ELSE IF meta_name[i] \in Separators
              THEN NormLoop(meta_name, i + 1, TRUE, normalized)
              ELSE NormLoop(meta_name, i + 1, FALSE, Append(normalized, meta_name[i]))

\* the loop with the `continue` after the capital letter left out
RECURSIVE NormLoopNoContinue(_, _, _, _)
NormLoopNoContinue(meta_name, i, upnext, normalized) ==
    IF i > Len(meta_name) THEN normalized
    ELSE LET n1 == IF upnext THEN Append(normalized, upper(meta_name[i])) ELSE normalized
         IN  IF meta_name[i] \in Separators
             THEN NormLoopNoContinue(meta_name, i + 1, TRUE, n1)
             ELSE NormLoopNoContinue(meta_name, i + 1, FALSE, Append(n1, meta_name[i]))

normalizeClassName_nocontinue(meta_name) ==
    Slice(NormLoopNoContinue(meta_name, 1, TRUE, <<>>), 0, maxlen - 1)

normalizeClassName_noupper(meta_name) ==
    Slice(NormLoop(meta_name, 1, FALSE, <<>>), 0, maxlen - 1)

normalizeClassName(meta_name) ==
    Slice(NormLoop(meta_name, 1, TRUE, <<>>), 0, maxlen - 1)

dsp_name(json_data) == normalizeClassName(json_data.name)

get_class_name_notrunc(json_data, noprefix) ==
    IF noprefix # 1 THEN FaustPrefix \o dsp_name(json_data) ELSE dsp_name(json_data)

get_class_name(json_data, noprefix) ==
    LET name  == dsp_name(json_data)
        name1 == IF noprefix # 1 THEN FaustPrefix \o name ELSE name
    IN  IF Len(name1) > 31 THEN Slice(name1, 0, 30) ELSE name1

(***************************************************************************)
(* DSP names the class-name functions are applied to: a free beginning, a  *)
(* run of one letter, one of a few endings.                                *)
(***************************************************************************)
Alphabet == {"a", "Z", "_", "-", " ", "7"}

SeqsUpTo(S, n) == UNION {[1..k -> S] : k \in 0..n}

Fill(n) == [i \in 1..n |-> "x"]

FillLens == {0} \cup ((MaxFill - 4)..MaxFill)

Tails == {<<>>, <<"_">>, <<"-", "b">>}

DspNames ==
    {h \o Fill(n) \o t : h \in SeqsUpTo(Alphabet, MaxHead), n \in FillLens, t \in Tails}


(***************************************************************************)
(* Header discovery                                                        *)
(***************************************************************************)
Subfolders == <<"plugin_interface", "server", "common">>

\* pathlib drops a trailing slash and a leading "./"
Path(s) ==
    CASE s = "/usr/local/include/SuperCollider/" -> "/usr/local/include/SuperCollider"
      [] s = "./include" -> "include"
      [] OTHER -> s

\* Path(a) / b
Join(a, b) == Path(a) \o "/" \o b

\* Path(".").resolve()
Cwd == "/work"

\* A header tree is the set of <<directory, subfolder>> pairs that exist
exists(tree, dir, sub) == <<Path(dir), sub>> \in tree

get_header_paths_any(tree, header_path) ==
    IF \E i \in 1..3 : exists(tree, header_path, Subfolders[i])
    THEN Some([i \in 1..3 |-> Join(header_path, Subfolders[i])])
    ELSE None

get_header_paths(tree, header_path) ==
    IF \A i \in 1..3 : exists(tree, header_path, Subfolders[i])
    THEN Some([i \in 1..3 |-> Join(header_path, Subfolders[i])])
    ELSE None

\* the candidate list of find_headers, after the user's path
folders(home) ==
    << "/usr/local/include/SuperCollider",
       "/usr/local/include/supercollider",
       "/usr/include/SuperCollider",
       "/usr/include/supercollider",
       "/usr/local/include/SuperCollider/",
       "/usr/share/supercollider-headers",
       Join(Cwd, "supercollider") >>
    \o (IF home # "" THEN <<Join(home, "supercollider")>> ELSE <<>>)

\* the for loop of find_headers from candidate i on: the paths, or None
RECURSIVE ProbeFrom(_, _, _)
ProbeFrom(tree, cands, i) ==
    IF i > Len(cands) THEN None
    ELSE IF get_header_paths(tree, cands[i]) # None
         THEN get_header_paths(tree, cands[i])
         ELSE ProbeFrom(tree, cands, i + 1)

\* find_headers: [ret |-> the paths] or [exit |-> the message of sys.exit]
find_headers(tree, header_path, home) ==
    LET ret == get_header_paths(tree, header_path)
    IN  IF ret # None THEN [ret |-> Val(ret), exit |-> ""]
        ELSE LET r2 == ProbeFrom(tree, folders(home), 1)
             IN  IF r2 # None THEN [ret |-> Val(r2), exit |-> ""]
                 ELSE [ret |-> <<>>, exit |-> "could not find SuperCollider headers"]

HeaderPaths == {"./include", "/usr/include/supercollider"}

Homes == {"", "/home/u"}

HeaderDirs ==
    {Path(HeaderPaths_i) : HeaderPaths_i \in HeaderPaths}
    \cup {Path(folders(h)[i]) : h \in Homes \ {""}, i \in 1..8}

SubfolderSets == (SUBSET {Subfolders[i] : i \in 1..3}) \ {{}}

\* the header trees in which at most k directories hold a subfolder
HeaderTrees(k) ==
    UNION { { UNION {{<<d, s>> : s \in f[d]} : d \in P} : f \in [P -> SubfolderSets] }
            : P \in {Q \in SUBSET HeaderDirs : Cardinality(Q) <= k} }

(***************************************************************************)
(* Help file arguments                                                     *)
(***************************************************************************)
\* the characters of remove_chars in sanitize_label
remove_chars == {"\\", "-", "_", "/", "(", "[", "^", ")", "]", "*"}

RECURSIVE sanitize_label(_)
sanitize_label(label) ==
    IF label = <<>> THEN <<>>
    ELSE IF Head(label) \in remove_chars
         THEN sanitize_label(Tail(label))
         ELSE <<lower(Head(label))>> \o sanitize_label(Tail(label))

\* flatten_list_of_dicts: a ChainMap finds a key in the first dict that has it
ChainHas(list_of_dicts, key) == \E i \in 1..Len(list_of_dicts) : key \in DOMAIN list_of_dicts[i]

ChainGet(list_of_dicts, key) ==
    list_of_dicts[CHOOSE i \in 1..Len(list_of_dicts) :
                     /\ key \in DOMAIN list_of_dicts[i]
                     /\ \A j \in 1..(i - 1) : key \notin DOMAIN list_of_dicts[j]][key]

\* A dict is a function whose domain is the keys present.
\* Python truth of param_min / param_max: "" (key absent) and 0 are false.
Truthy(ui_element, key) == key \in DOMAIN ui_element /\ ui_element[key] # 0

\* this_argument of one UI element, as its lines
help_argument(ui_element) ==
    LET param_name == IF "label" \in DOMAIN ui_element
                      THEN sanitize_label(ui_element["label"]) ELSE <<>>
        head == <<[line |-> "ARGUMENT::",
                   text |-> [i \in 1..Len(param_name) |-> lower(param_name[i])]]>>
        tip  == IF "meta" \in DOMAIN ui_element /\ ChainHas(ui_element["meta"], "tooltip")
                THEN <<[line |-> "tooltip", tooltip |-> ChainGet(ui_element["meta"], "tooltip")]>>
                ELSE <<>>
        rng  == IF Truthy(ui_element, "min") /\ Truthy(ui_element, "max")
                THEN << [line |-> "Minimum value: ", value |-> ui_element["min"]],
                        [line |-> "Maximum value: ", value |-> ui_element["max"]] >>
                ELSE <<>>
    IN  head \o tip \o rng

\* get_help_file_arguments: one block of lines per UI element, in order
get_help_file_arguments(json_data) ==
    LET items == ChainGet(json_data["ui"], "items")
    IN  [i \in 1..Len(items) |-> help_argument(items[i])]

\* The UI elements the renderer is applied to
Labels == {<<"G", "a", "i", "n">>}

MinValues == {0, 1}

MaxValues == {0, 5}

Tooltips == {"in dB"}

Opt(S) == {None} \cup {Some(v) : v \in S}

\* the dict with the keys that are given, of label, min, max and meta
UiElement(label, min, max, tooltip) ==
    [k \in {c \in {"label", "min", "max", "meta"} :
               \/ c = "label" /\ label # None
               \/ c = "min" /\ min # None
               \/ c = "max" /\ max # None
               \/ c = "meta" /\ tooltip # None}
       |-> CASE k = "label" -> Val(label)
             [] k = "min" -> Val(min)
             [] k = "max" -> Val(max)
             [] k = "meta" -> <<[tooltip |-> Val(tooltip)]>>]

UiElements ==
    {UiElement(l, mn, mx, tp) :
        l \in Opt(Labels), mn \in Opt(MinValues), mx \in Opt(MaxValues), tp \in Opt(Tooltips)}

\* metadata as faust writes it: the UI items in the first dict of "ui"
JsonData(name, items) ==
    [name |-> name, inputs |-> 1, outputs |-> 1, ui |-> <<[items |-> items]>>]

(***************************************************************************)
(* Compiler flags                                                          *)
(***************************************************************************)
KeyError == "KeyError"

\* envDict of faustoptflags; a key the function never set reads KeyError
faustoptflags(systemType, machine) ==
    [ MYGCCFLAGS |->
          IF machine = "arm6vl"
          THEN "-std=c++11 -O3 -march=armv6zk -mcpu=arm1176jzf-s -mtune=arm1176jzf-s -mfpu=vfp -mfloat-abi=hard -ffast-math -ftree-vectorize"
          ELSE IF systemType = "Darwin" /\ machine = "arm64"
               THEN "-std=c++11 -Ofast"
               ELSE "-std=c++11 -Ofast -march=native",
      EXT |->
          IF systemType # "Darwin" THEN "so"
          ELSE IF machine = "arm6vl" THEN KeyError ELSE "scx",
      SCFLAGS |->
          IF systemType # "Darwin" THEN "-DNO_LIBSNDFILE -DSC_LINUX -shared -fPIC"
          ELSE IF machine = "arm6vl" THEN KeyError ELSE "-DNO_LIBSNDFILE -DSC_DARWIN -bundle" ]

\* mac_arch of build_flags
mac_arch(macos_arch) ==
    IF macos_arch = Some("x86_64") THEN "-arch x86_64"
    ELSE IF macos_arch = Some("arm64") THEN "-arch arm64"
    ELSE ""

(***************************************************************************)
(* Files                                                                   *)
(* A path is [root, sub, stem, ext]: the directory it is under ("" for a   *)
(* relative path), the subdirectory below it, and the name stem.ext.       *)
(***************************************************************************)
File(root, sub, stem, ext) == [root |-> root, sub |-> sub, stem |-> stem, ext |-> ext]

\* Path.suffix: the extension with its leading dot
Suffix(p) == IF p.ext = "" THEN "" ELSE "." \o p.ext

\* base / p: an absolute p stays as it is
PathJoin(base, p) == IF p.root = "" THEN [p EXCEPT !.root = base] ELSE p

\* a relative path names a file of the working directory
Resolve(p) == PathJoin("cwd", p)

\* shutil.move of one file
Move(fs, src, dst) == IF Resolve(src) \in fs THEN (fs \ {Resolve(src)}) \cup {Resolve(dst)} ELSE fs

\* shutil.copytree(src_root / top, dst_root / top, dirs_exist_ok=True)
TopOf(sub) == IF sub = "HelpSource/Classes" THEN "HelpSource" ELSE sub

copytree(fs, src_root, dst_root, top) ==
    fs \cup {[f EXCEPT !.root = dst_root] : f \in {g \in fs : g.root = src_root /\ TopOf(g.sub) = top}}

\* Path.iterdir: the files right under root (the directories Classes and
\* HelpSource are entries too; their suffix is "" and no EXT is "")
iterdir(fs, root) == {f \in fs : f.root = root /\ f.sub = ""}

\* a or b, for an optional integer a
PyOr(a, b) == IF a = None \/ Val(a) = 0 THEN b ELSE Val(a)

PyOrNone(a, b) == IF a = None THEN b ELSE Val(a)

DspSuffix == <<".", "d", "s", "p">>

SupernovaSuffix == <<"_", "s", "u", "p", "e", "r", "n", "o", "v", "a">>

\* the result dict of convert_files
ConvertResult(dsp_stem, out_dir) ==
    [ dsp_file  |-> File("", "", dsp_stem, "dsp"),
      out_dir   |-> out_dir,
      cpp_file  |-> File("", "", dsp_stem, "cpp"),
      json_file |-> File("", "", dsp_stem \o DspSuffix, "json"),
      class     |-> None ]

(***************************************************************************)
(* State                                                                   *)
(***************************************************************************)
VARIABLES
    \* class names
    meta_name, normalized, renormalized, noprefix_in, class_name,
    \* header discovery
    hdr_tree, hdr_path, hdr_home, hdr_found,
    \* help file arguments
    help_json, help_arguments,
    \* the pipeline of __main__
    pc, args, platform, dsp, noprefix, scresult, data, files, steps,
    exit_status, exit_msg, rc, flags

nameVars == <<meta_name, normalized, renormalized, noprefix_in, class_name>>

hdrVars == <<hdr_tree, hdr_path, hdr_home, hdr_found>>

helpVars == <<help_json, help_arguments>>

pipeVars == <<pc, args, platform, dsp, noprefix, scresult, data, files, steps,
              exit_status, exit_msg, rc, flags>>

vars == <<nameVars, hdrVars, helpVars, pipeVars>>

IdleName ==
    /\ meta_name = <<>>
    /\ normalized = None
    /\ renormalized = None
    /\ noprefix_in = None
    /\ class_name = None

IdleHdr ==
    /\ hdr_tree = {}
    /\ hdr_path = ""
    /\ hdr_home = ""
    /\ hdr_found = None

IdleHelp ==
    /\ help_json = JsonData(<<>>, <<>>)
    /\ help_arguments = None

IdlePipe ==
    /\ pc = "idle"
    /\ args = [noprefix |-> None, supernova |-> FALSE, cpp |-> FALSE,
               targetfolder |-> None, headerpath |-> "./include", macosarch |-> None]
    /\ platform = [systemType |-> "Linux", machine |-> "x86_64", HOME |-> ""]
    /\ dsp = [stem |-> <<>>, name |-> <<>>]
    /\ noprefix = None
    /\ scresult = None
    /\ data = None
    /\ files = {}
    /\ steps = <<>>
    /\ exit_status = None
    /\ exit_msg = [text |-> "", file |-> None]
    /\ rc = [scsynth |-> None, supernova |-> None]
    /\ flags = None

(***************************************************************************)
(* Class names: normalizeClassName and get_class_name applied to a name    *)
(***************************************************************************)
InitName ==
    /\ meta_name \in DspNames
    /\ normalized = None
    /\ renormalized = None
    /\ noprefix_in = None
    /\ class_name = None
    /\ IdleHdr /\ IdleHelp /\ IdlePipe

\* normalizeClassName applied to the DSP name
Normalize ==
    /\ normalized = None
    /\ normalized' = Some(normalizeClassName(meta_name))
    /\ UNCHANGED <<meta_name, renormalized, noprefix_in, class_name>>
    /\ UNCHANGED <<hdrVars, helpVars, pipeVars>>

\* normalizeClassName applied to its own result
NormalizeAgain ==
    /\ normalized # None
    /\ renormalized = None
    /\ renormalized' = Some(normalizeClassName(Val(normalized)))
    /\ UNCHANGED <<meta_name, normalized, noprefix_in, class_name>>
    /\ UNCHANGED <<hdrVars, helpVars, pipeVars>>

\* get_class_name applied to metadata with that name
GetClassName ==
    /\ class_name = None
    /\ \E np \in {0, 1} :
          /\ noprefix_in' = Some(np)
          /\ class_name' = Some(get_class_name(JsonData(meta_name, <<>>), np))
    /\ UNCHANGED <<meta_name, normalized, renormalized>>
    /\ UNCHANGED <<hdrVars, helpVars, pipeVars>>

NextName == Normalize \/ NormalizeAgain \/ GetClassName

SpecName == InitName /\ [][NextName]_vars

(***************************************************************************)
(* Header discovery: find_headers applied to a header tree                 *)
(***************************************************************************)
InitHdr ==
    /\ hdr_tree \in HeaderTrees(MaxPopulated)
    /\ hdr_path \in HeaderPaths
    /\ hdr_home \in Homes
    /\ hdr_found = None
    /\ IdleName /\ IdleHelp /\ IdlePipe

FindHeaders ==
    /\ hdr_found = None
    /\ hdr_found' = Some(find_headers(hdr_tree, hdr_path, hdr_home))
    /\ UNCHANGED <<hdr_tree, hdr_path, hdr_home>>
    /\ UNCHANGED <<nameVars, helpVars, pipeVars>>

NextHdr == FindHeaders

SpecHdr == InitHdr /\ [][NextHdr]_vars

(***************************************************************************)
(* Help file: get_help_file_arguments applied to metadata                  *)
(***************************************************************************)
InitHelp ==
    /\ help_json \in {JsonData(<<"s">>, items) : items \in SeqsUpTo(UiElements, MaxControls)}
    /\ help_arguments = None
    /\ IdleName /\ IdleHdr /\ IdlePipe

GetHelpFileArguments ==
    /\ help_arguments = None
    /\ help_arguments' = Some(get_help_file_arguments(help_json))
    /\ UNCHANGED help_json
    /\ UNCHANGED <<nameVars, hdrVars, pipeVars>>

NextHelp == GetHelpFileArguments

SpecHelp == InitHelp /\ [][NextHelp]_vars

(***************************************************************************)
(* The pipeline: __main__, faust2sc and compile                            *)
(***************************************************************************)
\* DSP programs given to the tool: the file stem and the declared name
Dsps ==
    { [stem |-> <<"d">>, name |-> <<"m", "y", "-", "s">>],
      [stem |-> <<"e">>, name |-> Fill(29) \o <<"_", "b">>] }

\* header trees the pipeline may find on the machine
PipelineTrees ==
    { {},
      {<<"include", Subfolders[i]>> : i \in 1..3},
      {<<"include", "server">>} \cup {<<"/usr/include/SuperCollider", Subfolders[i]>> : i \in 1..3},
      {<<"/usr/share/supercollider-headers", "common">>} }

\* exit statuses os.system reports for the C++ compiler
CompilerStatuses == {0, 256}

ArgSets ==
    [ noprefix : Opt({0, 1}), supernova : BOOLEAN, cpp : BOOLEAN,
      targetfolder : Opt({"out"}), headerpath : {"./include"},
      macosarch : Opt({"arm64"}) ]

Platforms ==
    [ systemType : {"Linux", "Darwin"}, machine : {"x86_64", "arm64", "arm6vl"},
      HOME : {"/home/u"} ]

Init ==
    /\ pc = "main"
    /\ args \in ArgSets
    /\ platform \in Platforms
    /\ dsp \in Dsps
    /\ noprefix = None
    /\ scresult = None
    /\ data = None
    /\ files = {File("cwd", "", dsp.stem, "dsp")}
    /\ steps = <<>>
    /\ exit_status = None
    /\ exit_msg = [text |-> "", file |-> None]
    /\ rc = [scsynth |-> None, supernova |-> None]
    /\ flags = None
    /\ IdleName /\ IdleHdr /\ IdleHelp

\* sys.exit(message), or an uncaught exception: the process ends with status 1
Exit(text, file) ==
    /\ pc' = "exit"
    /\ exit_status' = Some(1)
    /\ exit_msg' = [text |-> text, file |-> file]

NoExit == UNCHANGED <<exit_status, exit_msg>>

tmp_folder == "tmp"

trg_path == PyOrNone(args.targetfolder, "cwd")

\* __main__ up to the call of faust2sc
main_begin ==
    /\ pc = "main"
    /\ noprefix' = Some(PyOr(args.noprefix, 1))
    /\ pc' = "convert_files"
    /\ NoExit
    /\ UNCHANGED <<args, platform, dsp, scresult, data, files, steps, rc, flags>>
    /\ UNCHANGED <<nameVars, hdrVars, helpVars>>

\* Converter: convert_files runs faust, which writes the .cpp and the .json
convert_files ==
    /\ pc = "convert_files"
    /\ steps' = Append(steps, "Converter")
    /\ LET result == ConvertResult(dsp.stem, tmp_folder)
       IN  \E ok \in BOOLEAN, wrote \in SUBSET {result.cpp_file, result.json_file} :
              IF ok
              THEN /\ files' = files \cup {Resolve(f) : f \in wrote}
                   /\ scresult' = Some(result)
                   /\ pc' = "read_json"
                   /\ NoExit
              ELSE /\ wrote = {}
                   /\ Exit("faust failed to compile json file", None)
                   /\ UNCHANGED <<files, scresult>>
    /\ UNCHANGED <<args, platform, dsp, noprefix, data, rc, flags>>
    /\ UNCHANGED <<nameVars, hdrVars, helpVars>>

\* read_json that goes on with empty metadata when the file is missing
read_json_lenient ==
    /\ pc = "read_json"
    /\ steps' = Append(steps, "Metadata Reader")
    /\ data' = Some(JsonData(dsp.name, <<>>))
    /\ pc' = "make_class_file"
    /\ NoExit
    /\ UNCHANGED <<args, platform, dsp, noprefix, scresult, files, rc, flags>>
    /\ UNCHANGED <<nameVars, hdrVars, helpVars>>

\* read_json that hands over to compile before the files are rendered
read_json_then_flags ==
    /\ pc = "read_json"
    /\ steps' = Append(steps, "Metadata Reader")
    /\ LET json_file == Val(scresult).json_file
       IN  IF Resolve(json_file) \in files
           THEN /\ data' = Some(JsonData(dsp.name, <<>>))
                /\ scresult' = Some([Val(scresult) EXCEPT
                                        !.class = Some(get_class_name(JsonData(dsp.name, <<>>), Val(noprefix)))])
                /\ pc' = "build_flags"
                /\ NoExit
           ELSE /\ Exit("could not find json file ", Some(json_file))
                /\ UNCHANGED <<data, scresult>>
    /\ UNCHANGED <<args, platform, dsp, noprefix, files, rc, flags>>
    /\ UNCHANGED <<nameVars, hdrVars, helpVars>>

\* Metadata Reader: read_json
read_json ==
    /\ pc = "read_json"
    /\ steps' = Append(steps, "Metadata Reader")
    /\ LET json_file == Val(scresult).json_file
       IN  IF Resolve(json_file) \in files
           THEN /\ data' = Some(JsonData(dsp.name, <<>>))
                /\ pc' = "make_class_file"
                /\ NoExit
           ELSE /\ Exit("could not find json file ", Some(json_file))
                /\ UNCHANGED data
    /\ UNCHANGED <<args, platform, dsp, noprefix, scresult, files, rc, flags>>
    /\ UNCHANGED <<nameVars, hdrVars, helpVars>>

\* Template Renderer: make_class_file writes <target_dir>/Classes/<class>.sc
make_class_file ==
    /\ pc = "make_class_file"
    /\ steps' = Append(steps, "Template Renderer")
    /\ files' = files \cup
          {File(tmp_folder, "Classes", get_class_name(Val(data), Val(noprefix)), "sc")}
    /\ pc' = "make_help_file"
    /\ NoExit
    /\ UNCHANGED <<args, platform, dsp, noprefix, scresult, data, rc, flags>>
    /\ UNCHANGED <<nameVars, hdrVars, helpVars>>

\* Template Renderer: make_help_file writes
\* <target_dir>/HelpSource/Classes/<class>.schelp
make_help_file ==
    /\ pc = "make_help_file"
    /\ steps' = Append(steps, "Template Renderer")
    /\ files' = files \cup
          {File(tmp_folder, "HelpSource/Classes", get_class_name(Val(data), Val(noprefix)), "schelp")}
    /\ pc' = "faust2sc_return"
    /\ NoExit
    /\ UNCHANGED <<args, platform, dsp, noprefix, scresult, data, rc, flags>>
    /\ UNCHANGED <<nameVars, hdrVars, helpVars>>

\* the end of faust2sc: the class name joins the result
faust2sc_return ==
    /\ pc = "faust2sc_return"
    /\ scresult' = Some([Val(scresult) EXCEPT
                            !.class = Some(get_class_name(Val(data), Val(noprefix)))])
    /\ pc' = "build_flags"
    /\ NoExit
    /\ UNCHANGED <<args, platform, dsp, noprefix, data, files, steps, rc, flags>>
    /\ UNCHANGED <<nameVars, hdrVars, helpVars>>

\* Flag Builder: build_flags, the first statement of compile
build_flags ==
    /\ pc = "build_flags"
    /\ steps' = Append(steps, "Flag Builder")
    /\ LET env == faustoptflags(platform.systemType, platform.machine)
       IN  IF env.SCFLAGS = KeyError
           THEN /\ Exit("KeyError: 'SCFLAGS'", None)
                /\ UNCHANGED flags
           ELSE \E tree \in PipelineTrees :
                   LET found == find_headers(tree, args.headerpath, platform.HOME)
                   IN  IF found.exit # ""
                       THEN /\ Exit(found.exit, None)
                            /\ UNCHANGED flags
                       ELSE /\ flags' = Some([ SCFLAGS |-> env.SCFLAGS,
                                               include |-> found.ret,
                                               MYGCCFLAGS |-> env.MYGCCFLAGS,
                                               mac_arch |-> mac_arch(args.macosarch) ])
                            /\ pc' = "compile_scsynth"
                            /\ NoExit
    /\ UNCHANGED <<args, platform, dsp, noprefix, scresult, data, files, rc>>
    /\ UNCHANGED <<nameVars, hdrVars, helpVars>>

\* Native Builder: the scsynth object; os.system's status is not looked at
compile_scsynth ==
    /\ pc = "compile_scsynth"
    /\ steps' = Append(steps, "Native Builder")
    /\ IF Resolve(Val(scresult).cpp_file) \in files
       THEN LET ext == faustoptflags(platform.systemType, platform.machine).EXT
                scsynth_obj == File(tmp_folder, "", Val(Val(scresult).class), ext)
            IN  \E status \in CompilerStatuses :
                   /\ rc' = [rc EXCEPT !.scsynth = Some(status)]
                   /\ files' = IF status = 0 THEN files \cup {scsynth_obj} ELSE files
                   /\ pc' = IF args.supernova THEN "compile_supernova" ELSE "move_files"
                   /\ NoExit
       ELSE /\ Exit("could not find cpp file: ", Some(Val(scresult).cpp_file))
            /\ UNCHANGED <<rc, files>>
    /\ UNCHANGED <<args, platform, dsp, noprefix, scresult, data, flags>>
    /\ UNCHANGED <<nameVars, hdrVars, helpVars>>

\* Native Builder: the supernova object
compile_supernova ==
    /\ pc = "compile_supernova"
    /\ steps' = Append(steps, "Native Builder")
    /\ LET ext == faustoptflags(platform.systemType, platform.machine).EXT
           supernova_obj == File(tmp_folder, "", Val(Val(scresult).class) \o SupernovaSuffix, ext)
       IN  \E status \in CompilerStatuses :
              /\ rc' = [rc EXCEPT !.supernova = Some(status)]
              /\ files' = IF status = 0 THEN files \cup {supernova_obj} ELSE files
    /\ pc' = "move_files"
    /\ NoExit
    /\ UNCHANGED <<args, platform, dsp, noprefix, scresult, data, flags>>
    /\ UNCHANGED <<nameVars, hdrVars, helpVars>>

\* the objects the loop of __main__ moves, and the file system after it
RECURSIVE MoveAll(_, _, _)
MoveAll(fs, objfiles, trg) ==
    IF objfiles = {} THEN fs
    ELSE LET objfile == CHOOSE f \in objfiles : TRUE
         IN  MoveAll(Move(fs, PathJoin(tmp_folder, objfile), PathJoin(trg, objfile)),
                     objfiles \ {objfile}, trg)

\* File Placer: the end of __main__
move_files ==
    /\ pc = "move_files"
    /\ steps' = Append(steps, "File Placer")
    /\ LET ext  == faustoptflags(platform.systemType, platform.machine).EXT
           fs1  == copytree(files, tmp_folder, trg_path, "Classes")
           fs2  == copytree(fs1, tmp_folder, trg_path, "HelpSource")
           objs == {objfile \in iterdir(fs2, tmp_folder) : Suffix(objfile) = ext}
           fs3  == MoveAll(fs2, objs, trg_path)
           cpp  == Val(scresult).cpp_file
       IN  files' = IF args.cpp THEN Move(fs3, cpp, PathJoin(trg_path, cpp)) ELSE fs3
    /\ pc' = "done"
    /\ exit_status' = Some(0)
    /\ UNCHANGED exit_msg
    /\ UNCHANGED <<args, platform, dsp, noprefix, scresult, data, rc, flags>>
    /\ UNCHANGED <<nameVars, hdrVars, helpVars>>

\* interpreter exit, after the last statement or a sys.exit: the
\* TemporaryDirectory is removed with what is in it
tmp_cleanup ==
    /\ pc \in {"done", "exit"}
    /\ files' = {f \in files : f.root # tmp_folder}
    /\ pc' = "exited"
    /\ NoExit
    /\ UNCHANGED <<args, platform, dsp, noprefix, scresult, data, steps, rc, flags>>
    /\ UNCHANGED <<nameVars, hdrVars, helpVars>>

Next ==
    \/ main_begin
    \/ convert_files
    \/ read_json
    \/ make_class_file
    \/ make_help_file
    \/ faust2sc_return
    \/ build_flags
    \/ compile_scsynth
    \/ compile_supernova
    \/ move_files
    \/ tmp_cleanup

Spec == Init /\ [][Next]_vars

(***************************************************************************)
(* Properties                                                              *)
(***************************************************************************)
StartsWith(s, p) == Len(s) >= Len(p) /\ SubSeq(s, 1, Len(p)) = p

Failed(status) == status # None /\ Val(status) # 0

Succeeded(status) == status # None /\ Val(status) = 0

Ran(step) == \E i \in 1..Len(steps) : steps[i] = step

\* the objects the Native Builder wrote into the temporary directory
BuiltObjects ==
    IF scresult = None \/ Val(scresult).class = None THEN {}
    ELSE LET ext == faustoptflags(platform.systemType, platform.machine).EXT
             cls == Val(Val(scresult).class)
         IN  (IF Succeeded(rc.scsynth) THEN {File(tmp_folder, "", cls, ext)} ELSE {})
             \cup (IF Succeeded(rc.supernova)
                   THEN {File(tmp_folder, "", cls \o SupernovaSuffix, ext)} ELSE {})

\* C1: when a C++ compiler invocation of compile() exits non-zero, the
\* process has exited with a message and no later step has run: no further
\* compiler invocation and no File Placer.
C1_CompilerFailureStops ==
    /\ Failed(rc.scsynth) =>
          /\ pc \in {"exit", "exited"}
          /\ exit_status = Some(1)
          /\ exit_msg.text # ""
          /\ rc.supernova = None
          /\ ~Ran("File Placer")
    /\ Failed(rc.supernova) =>
          /\ pc \in {"exit", "exited"}
          /\ exit_status = Some(1)
          /\ exit_msg.text # ""
          /\ ~Ran("File Placer")

\* C2: once the pipeline has finished, every object the Native Builder
\* wrote into the temporary directory exists in the target directory and no
\* longer in the temporary directory.
C2_BinariesMoved ==
    pc \in {"done", "exited"} =>
        \A obj \in BuiltObjects :
            /\ [obj EXCEPT !.root = trg_path] \in files
            /\ obj \notin files

\* C3: run with --noprefix 0 the class name is "Faust" followed by the
\* normalized DSP name; run with --noprefix 1 or without the option it has
\* no prefix.
C3_PrefixToggle ==
    (scresult # None /\ Val(scresult).class # None) =>
        Val(Val(scresult).class) =
            IF args.noprefix = Some(0)
            THEN get_class_name(Val(data), 0)
            ELSE get_class_name(Val(data), 1)

JsonMissing ==
    /\ scresult # None
    /\ pc # "read_json"
    /\ Resolve(Val(scresult).json_file) \notin files

\* C4: when the JSON file named by the Converter's result does not exist,
\* read_json ends the process with a non-zero status and a message naming
\* the file; no class file or help file is rendered and no later step runs.
C4_MissingJsonExits ==
    JsonMissing =>
        /\ pc \in {"exit", "exited"}
        /\ exit_status # None /\ Val(exit_status) # 0
        /\ exit_msg = [text |-> "could not find json file ",
                       file |-> Some(Val(scresult).json_file)]
        /\ data = None
        /\ \A f \in files : f.ext \notin {"sc", "schelp"}
        /\ steps = <<"Converter", "Metadata Reader">>
        /\ rc = [scsynth |-> None, supernova |-> None]

C4_Witness ==
    /\ JsonMissing
    /\ pc = "exit"
    /\ Resolve(Val(scresult).cpp_file) \in files

NoAdjacentSeparators(s) ==
    \A i \in 1..(Len(s) - 1) : ~(s[i] \in Separators /\ s[i + 1] \in Separators)

C6_Original ==
    class_name # None =>
        \/ Val(class_name) # <<>> /\ IsUpperLetter(Val(class_name)[1])
        \/ Val(noprefix_in) # 1 /\ StartsWith(Val(class_name), FaustPrefix)

\* C6: with the prefix enabled the class name starts with "Faust" for every
\* DSP name; without the prefix it starts with an uppercase letter for every
\* DSP name whose first character is an ASCII letter.
C6_UppercaseWhenNameStartsWithLetter ==
    class_name # None =>
        /\ Val(noprefix_in) # 1 => StartsWith(Val(class_name), FaustPrefix)
        /\ (Val(noprefix_in) = 1 /\ meta_name # <<>> /\ IsLetter(meta_name[1])) =>
              (Val(class_name) # <<>> /\ IsUpperLetter(Val(class_name)[1]))

C6_Witness ==
    /\ class_name # None
    /\ noprefix_in = Some(1)
    /\ meta_name # <<>>
    /\ meta_name[1] = "a"
    /\ Val(class_name)[1] = "A"

\* C7: for every DSP name of any length and either prefix setting the class
\* name get_class_name returns is at most 31 characters long.
C7_ClassNameAtMost31 ==
    class_name # None => Len(Val(class_name)) <= 31

C7_Witness ==
    /\ class_name # None
    /\ noprefix_in = Some(0)
    /\ Len(meta_name) > 31
    /\ Len(Val(class_name)) = 30

SpecOrder ==
    <<"Converter", "Metadata Reader", "Flag Builder", "Template Renderer",
      "Native Builder", "File Placer">>

CodeOrder ==
    <<"Converter", "Metadata Reader", "Template Renderer", "Flag Builder",
      "Native Builder", "File Placer">>

Rank(order, step) == CHOOSE k \in 1..6 : order[k] = step

\* the log of steps starts with the first step of the order and each entry
\* stays in the step of the entry before it or enters the next one
InOrder(order) ==
    /\ steps # <<>> => Rank(order, steps[1]) = 1
    /\ \A i \in 1..(Len(steps) - 1) :
          Rank(order, steps[i + 1]) \in {Rank(order, steps[i]), Rank(order, steps[i]) + 1}

Rendered == \E f \in files : f.root = tmp_folder /\ f.ext \in {"sc", "schelp"}

\* C8 as stated: the steps run in the order Converter, Metadata Reader,
\* Flag Builder, Template Renderer, Native Builder, File Placer; the Flag
\* Builder has run before the Template Renderer writes its files.
C8_Original ==
    /\ InOrder(SpecOrder)
    /\ Rendered => Ran("Flag Builder")

\* C8: the steps run in the order Converter, Metadata Reader, Template
\* Renderer, Flag Builder, Native Builder, File Placer, none starting before
\* its predecessor has run and none returning to an earlier one; the
\* Template Renderer has written the class and help files before the Flag
\* Builder runs (they are in the temporary directory until it is removed).
C8_CodeOrder ==
    /\ InOrder(CodeOrder)
    /\ (Ran("Flag Builder") /\ pc # "exited") =>
          /\ \E f \in files : f.root = tmp_folder /\ f.ext = "sc"
          /\ \E f \in files : f.root = tmp_folder /\ f.ext = "schelp"

C8_Witness ==
    /\ pc = "done"
    /\ \A k \in 1..6 : Ran(CodeOrder[k])
    /\ args.supernova

HasLine(block, line, value) ==
    \E k \in 1..Len(block) :
        /\ block[k].line = line
        /\ block[k].value = value

\* C9: for every UI control that carries both a minimum and a maximum
\* (a value of 0 included), the block rendered for it contains the
\* "Minimum value" and "Maximum value" lines with those values.
C9_BoundsListed ==
    help_arguments # None =>
        LET items == help_json.ui[1].items
        IN  \A i \in 1..Len(items) :
               ("min" \in DOMAIN items[i] /\ "max" \in DOMAIN items[i]) =>
                   /\ HasLine(Val(help_arguments)[i], "Minimum value: ", items[i]["min"])
                   /\ HasLine(Val(help_arguments)[i], "Maximum value: ", items[i]["max"])

HdrCandidates == <<hdr_path>> \o folders(hdr_home)

Complete(dir) == \A i \in 1..3 : <<Path(dir), Subfolders[i]>> \in hdr_tree

Partial(dir) == ~Complete(dir) /\ \E i \in 1..3 : <<Path(dir), Subfolders[i]>> \in hdr_tree

\* C10: find_headers probes the user's path first and then the fixed list,
\* and returns the plugin_interface, server and common paths of the first
\* candidate in which all three exist; a candidate with only some of them is
\* skipped; with no complete candidate the process exits with the message
\* that the headers could not be found.
C10_FirstCompleteCandidate ==
    hdr_found # None =>
        IF \E i \in 1..Len(HdrCandidates) : Complete(HdrCandidates[i])
        THEN \E i \in 1..Len(HdrCandidates) :
                /\ Complete(HdrCandidates[i])
                /\ \A j \in 1..(i - 1) : ~Complete(HdrCandidates[j])
                /\ Val(hdr_found).exit = ""
                /\ Val(hdr_found).ret =
                      << Path(HdrCandidates[i]) \o "/plugin_interface",
                         Path(HdrCandidates[i]) \o "/server",
                         Path(HdrCandidates[i]) \o "/common" >>
        ELSE /\ Val(hdr_found).exit = "could not find SuperCollider headers"
             /\ Val(hdr_found).ret = <<>>

C10_Witness ==
    /\ hdr_found # None
    /\ Partial(hdr_path)
    /\ \E i \in 2..Len(HdrCandidates) :
          /\ Complete(HdrCandidates[i])
          /\ Val(hdr_found).ret[2] = Path(HdrCandidates[i]) \o "/server"

====
